---- MODULE Spec2Model ----
(***************************************************************************)
(* tiny-sconf: a JSON-file backed configuration store (ConfigWrapper in    *)
(* src/lib/draft.ts) with an optional in-memory cache and change events.   *)
(*                                                                         *)
(* A stored JavaScript object (the cache, the object a JSON text holds) is *)
(* a function from its own keys to their values.  Where the code walks an  *)
(* object in key order (Object.entries(next), the draft) the object is a   *)
(* sequence of [key, value] entries in that order.  A value is one of the  *)
(* strings of Values: "undef" is JavaScript's undefined and "NaN" stands   *)
(* for what JSON cannot represent (NaN, Infinity) and JSON.stringify       *)
(* writes as null.                                                         *)
(***************************************************************************)
EXTENDS Naturals, Sequences, FiniteSets, TLC

\* ---------------------------------------------------------------- bounds

\* Most entries of an object handed to overwrite() or written externally.
MaxEntries == 2
\* Most keys handed to one trigger() call.
MaxTrigger == 2
\* Most retries of one m_writeFile call that the environment disturbs.
MaxRaces == 1
\* The latest event of one call at which a listener may throw.
MaxThrowAt == 2

\* ---------------------------------------------------------------- values

JsonValues == {"v1", "null"}
Values == JsonValues \cup {"NaN", "undef"}
\* The values a caller hands to alter(): one that JSON represents and one that
\* it does not.
AlterValues == {"v1", "NaN"}

\* The draft of the store: two keys, the second with a preset JSON cannot
\* represent.  "x" is a key the draft does not declare.
Draft == << [key |-> "a", preset |-> "v1"], [key |-> "b", preset |-> "NaN"] >>
ExtraKeys == {"x"}

SchemaKeys == {Draft[i].key : i \in 1..Len(Draft)}
AllKeys == SchemaKeys \cup ExtraKeys

\* ---------------------------------------------------------------- objects

EmptyObject == [k \in {} |-> "undef"]
KeysOf(obj) == DOMAIN obj
HasKey(obj, k) == k \in DOMAIN obj
\* obj[k]: the value of an own key, undefined for a missing one.
Get(obj, k) == IF k \in DOMAIN obj THEN obj[k] ELSE "undef"
\* obj[k] = v
Put(obj, k, v) == [j \in (DOMAIN obj) \cup {k} |-> IF j = k THEN v ELSE obj[j]]
\* A slip of Object.assign: the target's entries win over the source's.
ObjectAssign_TargetWins(target, source) ==
    [j \in (DOMAIN target) \cup (DOMAIN source) |->
        IF j \in DOMAIN target THEN target[j] ELSE source[j]]

\* Object.assign(target, source): every own entry of source is put on target.
ObjectAssign(target, source) ==
    [j \in (DOMAIN target) \cup (DOMAIN source) |->
        IF j \in DOMAIN source THEN source[j] ELSE target[j]]

\* The object a sequence of entries (an object literal in key order) denotes.
RECURSIVE FromEntries(_)
FromEntries(entries) ==
    IF entries = << >> THEN EmptyObject
    ELSE Put(FromEntries(SubSeq(entries, 1, Len(entries) - 1)),
             entries[Len(entries)].key, entries[Len(entries)].value)

EntryKeys(entries) == {entries[i].key : i \in 1..Len(entries)}

\* ---------------------------------------------------------------- JSON

\* A text is what a file holds: JSON of an object, or text that is not JSON.
JsonText(obj) == [kind |-> "json", obj |-> obj]
Corrupt == [kind |-> "corrupt", obj |-> EmptyObject]
Absent == [kind |-> "absent", obj |-> EmptyObject]

\* JSON.stringify of one value: what JSON cannot represent is written as null.
JsonValue(v) == IF v \in JsonValues THEN v ELSE "null"

\* JSON.stringify(obj): an entry whose value is undefined is left out.
JsonStringify(obj) ==
    JsonText([k \in {j \in DOMAIN obj : obj[j] # "undef"} |-> JsonValue(obj[k])])

\* JSON.parse: the object of a JSON text, a SyntaxError for any other text.
JsonParse(text) ==
    IF text.kind = "json" THEN [err |-> "none", val |-> text.obj]
    ELSE [err |-> "SyntaxError", val |-> EmptyObject]

\* ---------------------------------------------------------------- filesystem

\* The state of the configured path: whether its parent directory exists and
\* the file's text (Absent when there is no file).
FreshFs == [dir |-> FALSE, file |-> Absent]

existsSync(f) == f.file.kind # "absent"

\* fs.readFileSync: fault is "fail" when the file cannot be read just now.
readFileSync(f, fault) ==
    IF ~existsSync(f) THEN [err |-> "ReadENOENT", text |-> Absent]
    ELSE IF fault = "fail" THEN [err |-> "ReadEACCES", text |-> Absent]
    ELSE [err |-> "none", text |-> f.file]

\* fs.writeFileSync: fault is "fail" when the write fails for a reason other
\* than a missing path (permissions, disk full); ENOENT without the parent
\* directory.
writeFileSync(f, text, fault) ==
    IF fault = "fail" THEN [err |-> "EACCES", fs |-> f]
    ELSE IF ~f.dir THEN [err |-> "ENOENT", fs |-> f]
    ELSE [err |-> "none", fs |-> [f EXCEPT !.file = text]]

\* fs.mkdirSync(dirname, {recursive: true})
mkdirSync(f) == [f EXCEPT !.dir = TRUE]

\* fs.rmSync(dirname, {recursive: true, force: true}) by anyone
rmSync(f) == FreshFs

\* ---------------------------------------------------------------- schema

\* A slip of m_flatten: the last draft entry is lost.
m_flatten_DropLast ==
    [i \in 1..(Len(Draft) - 1) |-> [key |-> Draft[i].key, value |-> Draft[i].preset]]

\* Schema.m_flatten: every draft entry projected to its preset, in draft order.
m_flatten == [i \in 1..Len(Draft) |-> [key |-> Draft[i].key, value |-> Draft[i].preset]]
\* Schema.flattened, computed once at construction.
flattened == FromEntries(m_flatten)

\* ---------------------------------------------------------------- store

VARIABLES
    fs,         \* the configured path on disk
    phase,      \* "new": no store yet, "live": constructed, "dead": construction threw
    m_options,  \* ConfigWrapper.m_options
    m_cache,    \* ConfigWrapper.m_cache: [kind |-> "null"] or [kind |-> "obj", obj]
    last,       \* the last call made, its arguments and how it ended
    emitted,    \* the events the last call emitted, in order
    held,       \* the object the caller keeps a reference to, if any
    twin        \* two stores on files of their own, driven by the same calls

vars == << fs, phase, m_options, m_cache, last, emitted, held, twin >>

\* Options.Default
Default == [useCache |-> FALSE, allowCreate |-> TRUE, exposedEvents |-> FALSE]

Paths == {"conf.json", "conf.txt"}
\* A slip of the extension check: every path passes.
EndsWithJson_Any(path) == TRUE

\* String.prototype.endsWith('.json') on the paths of the model.
EndsWithJson(path) == path = "conf.json"

\* The options handed to the constructor, the defaults filled in.
OptionSets ==
    [path : {"conf.json"}, useCache : BOOLEAN, allowCreate : {TRUE}, exposedEvents : BOOLEAN]
    \cup {[path |-> "conf.json", allowCreate |-> FALSE] @@ Default}
    \cup {[path |-> "conf.txt"] @@ Default}

NullCache == [kind |-> "null", obj |-> EmptyObject]
CacheOf(obj) == [kind |-> "obj", obj |-> obj]

\* What the caller holds: nothing, the cache object itself ("alias": one object,
\* its content is the cache's), or an object of its own.
NoHeld == [kind |-> "none", obj |-> EmptyObject]
SameAsCache == [kind |-> "alias", obj |-> EmptyObject]
OwnObject(obj) == [kind |-> "own", obj |-> obj]
\* this.m_cache = <another object>: a caller that held the old cache object
\* keeps it, now apart from the store.
HeldAfterReplace ==
    IF held.kind = "alias" THEN OwnObject(m_cache.obj) ELSE held

\* A store by its state: the cache, the file of its path, the events its last
\* call emitted.
NoStore == [cache |-> NullCache, fs |-> FreshFs, emitted |-> << >>]
\* No pair of stores yet.  op is the call last made on both, got what read()
\* returned to each when the call was read().
NoTwin ==
    [on |-> FALSE, exposed |-> FALSE, op |-> "none", key |-> "", value |-> "",
     next |-> << >>, keys |-> << >>,
     cached |-> NoStore, plain |-> NoStore,
     gotCached |-> EmptyObject, gotPlain |-> EmptyObject]

\* seen and seenFile are what a listener of 'change' gets from read() and finds
\* in the file while the event of an alter is delivered; throwAt is the event of
\* the call at which a listener threw, 0 when none did.
NoCall ==
    [op |-> "none", key |-> "", value |-> "", next |-> << >>, keys |-> << >>,
     rfault |-> "ok", faults |-> << >>, err |-> "none", attempts |-> 0,
     seen |-> EmptyObject, seenFile |-> Absent, throwAt |-> 0]

\* ---- private methods

\* A slip of m_prepareResource: the directory is made before allowCreate is
\* looked at.
m_prepareResource_MkdirFirst(f, opts) ==
    IF existsSync(f) THEN [err |-> "none", fs |-> f]
    ELSE IF ~opts.allowCreate THEN [err |-> "ResourceMissing", fs |-> mkdirSync(f)]
    ELSE [err |-> "none", fs |-> mkdirSync(f)]

\* m_prepareResource: nothing to do when the file exists; otherwise the parent
\* directory chain is created, or the call throws when allowCreate is off.
m_prepareResource(f, opts) ==
    IF existsSync(f) THEN [err |-> "none", fs |-> f]
    ELSE IF ~opts.allowCreate THEN [err |-> "ResourceMissing", fs |-> f]
    ELSE [err |-> "none", fs |-> mkdirSync(f)]

\* A slip of the merge: the file is filtered by the schema, its other keys lost.
ReadAndMerge_SchemaOnly(f, rfault) ==
    LET r == readFileSync(f, rfault)
        p == JsonParse(r.text)
    IN IF r.err # "none" THEN [err |-> r.err, val |-> EmptyObject]
       ELSE IF p.err # "none" THEN [err |-> p.err, val |-> EmptyObject]
       ELSE [err |-> "none",
             val |-> [k \in SchemaKeys |-> IF HasKey(p.val, k) THEN p.val[k] ELSE flattened[k]]]

\* The body of m_readFile's try block: read, parse and merge over a copy of the
\* presets.
ReadAndMerge(f, rfault) ==
    LET r == readFileSync(f, rfault)
        p == JsonParse(r.text)
    IN IF r.err # "none" THEN [err |-> r.err, val |-> EmptyObject]
       ELSE IF p.err # "none" THEN [err |-> p.err, val |-> EmptyObject]
       ELSE [err |-> "none", val |-> ObjectAssign(flattened, p.val)]

\* A slip of m_readFile: no try/catch, what the block throws escapes.
m_readFile_NoCatch(f, rfault) == ReadAndMerge(f, rfault)

\* m_readFile: the merged configuration, or the copy of the presets when
\* anything in the try block threw.
m_readFile(f, rfault) ==
    LET t == ReadAndMerge(f, rfault)
    IN IF t.err = "none" THEN t ELSE [err |-> "none", val |-> flattened]

\* The fault the environment injects into the n-th write attempt of a call.
FaultAt(faults, n) == IF n <= Len(faults) THEN faults[n] ELSE "ok"

\* A slip of m_writeFile: every error of the write is rethrown, no retry.
m_writeFile_NoRetry(f, next, opts, faults, n) ==
    LET w == writeFileSync(f, JsonStringify(next), FaultAt(faults, n + 1))
    IN [err |-> w.err, fs |-> w.fs, attempts |-> n + 1]

RECURSIVE m_writeFile(_, _, _, _, _)
\* m_writeFile: write the JSON text; on ENOENT prepare the resource and call
\* itself again.  n counts the attempts made before this one; a fault "rmdir"
\* is an external process removing the directory right before the attempt.
m_writeFile(f, next, opts, faults, n) ==
    LET fault == FaultAt(faults, n + 1)
        g == IF fault = "rmdir" THEN rmSync(f) ELSE f
        w == writeFileSync(g, JsonStringify(next), fault)
    IN IF w.err = "none" THEN [err |-> "none", fs |-> w.fs, attempts |-> n + 1]
       ELSE IF w.err # "ENOENT" THEN [err |-> w.err, fs |-> g, attempts |-> n + 1]
       ELSE LET p == m_prepareResource(g, opts)
            IN IF p.err # "none" THEN [err |-> p.err, fs |-> p.fs, attempts |-> n + 1]
               ELSE m_writeFile(p.fs, next, opts, faults, n + 1)

\* A slip of m_current: the file is read afresh even when the cache is in use.
m_current_AlwaysFile(cache, f, opts, rfault) == m_readFile(f, rfault)

\* m_current: the cache, or the file read afresh.
m_current(cache, f, opts, rfault) ==
    IF opts.useCache THEN [err |-> "none", val |-> cache.obj] ELSE m_readFile(f, rfault)

\* Alteration: a key with its value.
Alteration(k, v) == [key |-> k, value |-> v]

ChangeEvent(alterations) ==
    [name |-> "change", key |-> "", value |-> "", batch |-> alterations]
KeyEvent(alter) ==
    [name |-> "change:key", key |-> alter.key, value |-> alter.value, batch |-> << >>]

\* A slip of m_emitAlterations: the per-key events are fired before the batch.
m_emitAlterations_KeysFirst(alterations, opts) ==
    (IF ~opts.exposedEvents THEN << >>
     ELSE [i \in 1..Len(alterations) |-> KeyEvent(alterations[i])])
    \o << ChangeEvent(alterations) >>

\* A slip of m_emitAlterations: the per-key events are fired whatever
\* exposedEvents says.
m_emitAlterations_Ungated(alterations, opts) ==
    << ChangeEvent(alterations) >> \o
    [i \in 1..Len(alterations) |-> KeyEvent(alterations[i])]

\* m_emitAlterations: the batch event, then one event per alteration when the
\* per-key events are exposed.
m_emitAlterations(alterations, opts) ==
    << ChangeEvent(alterations) >> \o
    (IF ~opts.exposedEvents THEN << >>
     ELSE [i \in 1..Len(alterations) |-> KeyEvent(alterations[i])])

\* A slip of the emitter: what a listener throws is swallowed and the remaining
\* events are fired.
Deliver_Swallow(events, n) == events

\* EventEmitter.emit with a listener that throws at the n-th event of the call
\* (n = 0: no listener throws): the exception leaves emit and m_emitAlterations,
\* so the events after the n-th are never emitted.
Deliver(events, n) == IF n = 0 THEN events ELSE SubSeq(events, 1, n)

\* How a call ends whose emission was reached with a listener throwing at n.
ListenerErr(err, n) == IF n > 0 THEN "ListenerError" ELSE err
\* A listener can throw only at an event that is emitted.
ThrowAtUsed(events, n) == n <= Len(events)

\* read(): the current configuration; read(key): one value of it.
read(cache, f, opts, rfault) == m_current(cache, f, opts, rfault).val
readKey(cache, f, opts, rfault, k) == Get(read(cache, f, opts, rfault), k)

\* ---------------------------------------------------------------- inputs

\* The values an entry of an object handed to overwrite() may carry: a JSON
\* value for every key, and for "b" also the one JSON cannot represent.
EntryValues(k) ==
    IF k = "a" THEN {"null"} ELSE IF k = "b" THEN {"null", "NaN"} ELSE {"v1"}

RECURSIVE EntryLists(_)
\* The object literals of n entries: distinct keys, in every order.
EntryLists(n) ==
    IF n = 0 THEN { << >> }
    ELSE { Append(e, [key |-> k, value |-> v]) :
             e \in EntryLists(n - 1), k \in AllKeys, v \in Values }

NextObjects ==
    { e \in UNION {EntryLists(n) : n \in 0..MaxEntries} :
        /\ Cardinality(EntryKeys(e)) = Len(e)
        /\ \A i \in 1..Len(e) : e[i].value \in EntryValues(e[i].key) }

\* What another process writes: text that is not JSON, or the JSON of an object.
ExternalTexts ==
    {Corrupt} \cup { JsonStringify(FromEntries(e)) : e \in NextObjects }

\* The faults of one m_writeFile call, one per attempt: the first attempt may
\* fail, before a retry the directory may be removed again, and a failed
\* attempt is the last one.
WriteFaults ==
    { f \in UNION {[1..n -> {"ok", "rmdir", "fail"}] : n \in 0..(MaxRaces + 1)} :
        /\ Len(f) = 1 => f[1] = "fail"
        /\ Len(f) > 1 => f[1] = "ok"
        /\ \A i \in 2..Len(f) : f[i] # "ok"
        /\ \A i \in 1..(Len(f) - 1) : f[i] # "fail" }
ReadFaults == {"ok", "fail"}
\* The keys handed to trigger(): a schema key and a key the draft does not declare.
TriggerKeyChoices == {"b", "x"}
TriggerKeys == UNION {[1..n -> TriggerKeyChoices] : n \in 0..MaxTrigger}

\* The faults of a call are those that met an attempt, the last one not "ok".
FaultsUsed(faults, attempts) ==
    /\ Len(faults) <= attempts
    /\ faults # << >> => faults[Len(faults)] # "ok"
\* A read fault is one of a read that happened on an existing file.
ReadFaultUsed(rfault, reads) == rfault = "fail" => reads /\ existsSync(fs)

\* ---------------------------------------------------------------- operations

Init ==
    /\ fs = FreshFs
    /\ phase = "new"
    /\ m_options = [path |-> "conf.json"] @@ Default
    /\ m_cache = NullCache
    /\ last = NoCall
    /\ emitted = << >>
    /\ held = NoHeld
    /\ twin = NoTwin

\* new ConfigWrapper(draft, opts): the extension check, m_prepareResource and
\* m_prepareCache.  A constructor that throws leaves no store.
ConstructRun(f, opts, rfault) ==
    LET p == m_prepareResource(f, opts)
        err == IF ~EndsWithJson(opts.path) THEN "ValidationError" ELSE p.err
        rd == m_readFile(p.fs, rfault)
        ok == err = "none" /\ (opts.useCache => rd.err = "none")
    IN [reads |-> err = "none" /\ opts.useCache,
        fs |-> IF EndsWithJson(opts.path) THEN p.fs ELSE f,
        phase |-> IF ok THEN "live" ELSE "dead",
        cache |-> IF ok /\ opts.useCache THEN CacheOf(rd.val) ELSE NullCache,
        err |-> IF err # "none" THEN err
                ELSE IF opts.useCache THEN rd.err ELSE "none"]

\* The constructor called on the path of the model.
Construct(opts, rfault) ==
    \E r \in {ConstructRun(fs, opts, rfault)} :
       /\ ReadFaultUsed(rfault, r.reads)
       /\ m_options' = opts
       /\ fs' = r.fs
       /\ phase' = r.phase
       /\ m_cache' = r.cache
       /\ last' = [NoCall EXCEPT !.op = "construct", !.rfault = rfault, !.err = r.err]
       /\ emitted' = << >>
       /\ held' = HeldAfterReplace
       /\ UNCHANGED twin

\* A slip of the mutating calls: the cache is put back when the write throws.
CacheAfterWrite_Rollback(set, old, err) == IF err # "none" THEN old ELSE set

\* A slip of the mutating calls: the cache is left as it was before the call.
CacheAfterWrite_Stale(set, old, err) == old

\* The cache a mutating call leaves: it is set before m_writeFile is called and
\* nothing restores it when m_writeFile throws.
CacheAfterWrite(set, old, err) == set

\* A slip of alter: the key is set on a copy of the presets.
AlterConf_OnPresets(conf, k, v) == Put(flattened, k, v)

\* A slip of alter: only the changed key is written, a partial patch.
AlterConf_Patch(conf, k, v) == Put(EmptyObject, k, v)

\* conf[key] = value in alter.
AlterConf(conf, k, v) == Put(conf, k, v)

\* A slip of alter: the alteration is emitted before the file is written.
AlterEmitState_BeforeWrite(set, written) == set

\* The store as it is when alter calls m_emitAlterations: m_writeFile has
\* returned.
AlterEmitState(set, written) == written

\* alter(key, value): change one key of the current configuration, write the
\* whole configuration, emit one alteration.  The emission is reached when
\* nothing before it threw; a listener throws at event n of it (0: none).
\* The call is one the inputs describe when valid holds: every fault given met
\* an attempt and the listener's throw met an event.
AlterRun(cache, f, opts, k, v, rfault, faults, n) ==
    LET cur == m_current(cache, f, opts, rfault)
        conf == AlterConf(cur.val, k, v)
        set == IF opts.useCache THEN CacheOf(conf) ELSE cache
        w == m_writeFile(f, conf, opts, faults, 0)
        at == AlterEmitState([cache |-> set, fs |-> f, err |-> "none"],
                             [cache |-> set, fs |-> w.fs, err |-> w.err])
        events == IF at.err # "none" THEN << >>
                  ELSE m_emitAlterations(<< Alteration(k, v) >>, opts)
    IN IF cur.err # "none"
       THEN [valid |-> faults = << >> /\ n = 0,
             cache |-> cache, fs |-> f, emitted |-> << >>,
             err |-> cur.err, faults |-> << >>, attempts |-> 0, throwAt |-> 0,
             seen |-> EmptyObject, seenFile |-> Absent]
       ELSE [valid |-> FaultsUsed(faults, w.attempts) /\ ThrowAtUsed(events, n),
             cache |-> CacheAfterWrite(set, cache, w.err), fs |-> w.fs,
             emitted |-> IF ThrowAtUsed(events, n) THEN Deliver(events, n) ELSE << >>,
             err |-> ListenerErr(w.err, n), faults |-> faults,
             attempts |-> w.attempts, throwAt |-> n,
             seen |-> IF at.err # "none" THEN EmptyObject
                      ELSE read(at.cache, at.fs, opts, "ok"),
             seenFile |-> IF at.err # "none" THEN Absent ELSE at.fs.file]

\* alter(key, value) called on the store of the model.
alterListening(k, v, rfault, faults, n) ==
    \E r \in {AlterRun(m_cache, fs, m_options, k, v, rfault, faults, n)} :
       /\ phase = "live"
       /\ ReadFaultUsed(rfault, ~m_options.useCache)
       /\ r.valid
       /\ m_cache' = r.cache
       /\ fs' = r.fs
       /\ emitted' = r.emitted
       /\ last' = [NoCall EXCEPT !.op = "alter", !.key = k, !.value = v,
                                 !.rfault = rfault, !.faults = r.faults,
                                 !.err = r.err, !.attempts = r.attempts,
                                 !.throwAt = r.throwAt, !.seen = r.seen,
                                 !.seenFile = r.seenFile]
       /\ UNCHANGED << phase, m_options, held, twin >>

\* alter(key, value) with listeners that return.
alter(k, v, rfault, faults) == alterListening(k, v, rfault, faults, 0)

\* A slip of overwrite: the alterations come out in reverse key order.
ObjectEntries_Reversed(next) ==
    [i \in 1..Len(next) |->
        Alteration(next[Len(next) + 1 - i].key, next[Len(next) + 1 - i].value)]

\* Object.entries(next) mapped to alterations: one per own entry, in key order.
ObjectEntries(next) == [i \in 1..Len(next) |-> Alteration(next[i].key, next[i].value)]

\* The body of overwrite(next), which reset() calls too: op names the caller.
\* A listener throws at event n of the emission (0: none).
OverwriteRun(cache, f, opts, next, faults, n) ==
    LET w == m_writeFile(f, FromEntries(next), opts, faults, 0)
        events == IF w.err # "none" THEN << >>
                  ELSE m_emitAlterations(ObjectEntries(next), opts)
    IN [valid |-> FaultsUsed(faults, w.attempts) /\ ThrowAtUsed(events, n),
        cache |-> CacheAfterWrite(IF opts.useCache THEN CacheOf(FromEntries(next))
                                  ELSE cache, cache, w.err),
        fs |-> w.fs,
        emitted |-> IF ThrowAtUsed(events, n) THEN Deliver(events, n) ELSE << >>,
        err |-> ListenerErr(w.err, n), attempts |-> w.attempts]

\* overwrite(next) or reset() called on the store of the model.
OverwriteStore(op, next, faults, n) ==
    \E r \in {OverwriteRun(m_cache, fs, m_options, next, faults, n)} :
       /\ phase = "live"
       /\ r.valid
       /\ m_cache' = r.cache
       /\ fs' = r.fs
       /\ emitted' = r.emitted
       /\ last' = [NoCall EXCEPT !.op = op, !.next = next, !.faults = faults,
                                 !.err = r.err, !.attempts = r.attempts,
                                 !.throwAt = n]
       /\ UNCHANGED << phase, m_options, twin >>

\* overwrite(next) by a caller that keeps no reference to next.
OverwriteListening(op, next, faults, n) ==
    /\ OverwriteStore(op, next, faults, n)
    /\ held' = IF m_options.useCache THEN HeldAfterReplace ELSE held

\* overwrite(next) and reset() with listeners that return.
OverwriteWith(op, next, faults) == OverwriteListening(op, next, faults, 0)

overwrite(next, faults) == OverwriteWith("overwrite", next, faults)

\* A slip of reset: the store is overwritten with an empty object.
reset_Empty(faults) == OverwriteWith("reset", << >>, faults)

\* reset(): overwrite with a fresh copy of the presets.
reset(faults) == OverwriteWith("reset", m_flatten, faults)

\* A slip of trigger: the presets are emitted instead of the current values.
TriggerAlterations_Presets(conf, keys) ==
    [i \in 1..Len(keys) |-> Alteration(keys[i], Get(flattened, keys[i]))]

\* keys.map((key) => new Alteration(key, conf[key])) in trigger.
TriggerAlterations(conf, keys) ==
    [i \in 1..Len(keys) |-> Alteration(keys[i], Get(conf, keys[i]))]

\* trigger(...keys): emit the current value of every named key.  A listener
\* throws at event n of the emission (0: none).
TriggerRun(cache, f, opts, keys, rfault, n) ==
    LET cur == m_current(cache, f, opts, rfault)
        events == IF cur.err # "none" THEN << >>
                  ELSE m_emitAlterations(TriggerAlterations(cur.val, keys), opts)
    IN [valid |-> ThrowAtUsed(events, n),
        emitted |-> IF ThrowAtUsed(events, n) THEN Deliver(events, n) ELSE << >>,
        err |-> ListenerErr(cur.err, n)]

\* trigger(...keys) called on the store of the model.
triggerListening(keys, rfault, n) ==
    \E r \in {TriggerRun(m_cache, fs, m_options, keys, rfault, n)} :
       /\ phase = "live"
       /\ ReadFaultUsed(rfault, ~m_options.useCache)
       /\ r.valid
       /\ emitted' = r.emitted
       /\ last' = [NoCall EXCEPT !.op = "trigger", !.keys = keys, !.rfault = rfault,
                                 !.err = r.err, !.throwAt = n]
       /\ UNCHANGED << fs, m_cache, phase, m_options, held, twin >>

\* trigger(...keys) with listeners that return.
trigger(keys, rfault) == triggerListening(keys, rfault, 0)

\* ---- the environment: another process working on the same path

External(f) ==
    /\ f # fs
    /\ fs' = f
    /\ last' = [NoCall EXCEPT !.op = "external"]
    /\ emitted' = << >>
    /\ UNCHANGED << phase, m_options, m_cache, held, twin >>

\* fs.rmSync(dir, {recursive: true, force: true}), as the test suite does.
ExtRemoveDir == External(rmSync(fs))
ExtWrite(text) == External([dir |-> TRUE, file |-> text])

Next ==
    \/ \E opts \in OptionSets, rfault \in ReadFaults : Construct(opts, rfault)
    \/ \E k \in SchemaKeys, v \in AlterValues, rfault \in ReadFaults, faults \in WriteFaults :
          alter(k, v, rfault, faults)
    \/ \E next \in NextObjects, faults \in WriteFaults : overwrite(next, faults)
    \/ \E faults \in WriteFaults : reset(faults)
    \/ \E keys \in TriggerKeys, rfault \in ReadFaults : trigger(keys, rfault)
    \/ ExtRemoveDir
    \/ \E text \in ExternalTexts : ExtWrite(text)

Spec == Init /\ [][Next]_vars

\* ---- the store with listeners that may throw

ThrowAts == 0..MaxThrowAt

NextListener ==
    \/ \E opts \in OptionSets : Construct(opts, "ok")
    \/ \E k \in SchemaKeys, v \in AlterValues, n \in ThrowAts :
          alterListening(k, v, "ok", << >>, n)
    \/ \E next \in NextObjects, n \in ThrowAts :
          OverwriteListening("overwrite", next, << >>, n)
    \/ \E n \in ThrowAts : OverwriteListening("reset", m_flatten, << >>, n)
    \/ \E keys \in TriggerKeys, n \in ThrowAts : triggerListening(keys, "ok", n)

SpecListener == Init /\ [][NextListener]_vars

\* ---- the store with a caller that keeps and changes the objects it exchanges

\* What read() hands to the caller: m_current, which is the cache object itself
\* when the cache is in use and a freshly built object otherwise.
ReadResult(opts, conf) == IF opts.useCache THEN SameAsCache ELSE OwnObject(conf)

\* The caller calls read() and keeps the object.
ReadHold ==
    /\ phase = "live"
    /\ held' = ReadResult(m_options, read(m_cache, fs, m_options, "ok"))
    /\ last' = [NoCall EXCEPT !.op = "read"]
    /\ emitted' = << >>
    /\ UNCHANGED << fs, phase, m_options, m_cache, twin >>

\* What the caller's next is after overwrite(next): this.m_cache = next makes it
\* the cache object when the cache is in use.
NextResult(opts, next) == IF opts.useCache THEN SameAsCache ELSE OwnObject(next)

\* The caller calls overwrite(next) and keeps next.
overwriteKept(next) ==
    /\ OverwriteStore("overwrite", next, << >>, 0)
    /\ held' = NextResult(m_options, FromEntries(next))

\* The object the caller holds, by content.
HeldObj == IF held.kind = "alias" THEN m_cache.obj ELSE held.obj

\* The caller sets a key of the object it holds: held[k] = v.
CallerMutates(k, v) ==
    /\ held.kind # "none"
    /\ Get(HeldObj, k) # v
    /\ IF held.kind = "alias"
       THEN m_cache' = CacheOf(Put(m_cache.obj, k, v)) /\ held' = held
       ELSE held' = OwnObject(Put(held.obj, k, v)) /\ m_cache' = m_cache
    /\ last' = [NoCall EXCEPT !.op = "caller", !.key = k, !.value = v]
    /\ emitted' = << >>
    /\ UNCHANGED << fs, phase, m_options, twin >>

NextOwnership ==
    \/ \E opts \in OptionSets : Construct(opts, "ok")
    \/ ReadHold
    \/ \E next \in NextObjects : overwriteKept(next)
    \/ \E k \in SchemaKeys, v \in AlterValues : alter(k, v, "ok", << >>)
    \/ reset(<< >>)
    \/ \E k \in SchemaKeys, v \in AlterValues : CallerMutates(k, v)

SpecOwnership == Init /\ [][NextOwnership]_vars

\* ---- two stores from the same draft, one with the cache and one without

\* The options of the pair: they differ in useCache alone.
TwinOptions(useCache, exposed) ==
    [path |-> "conf.json", useCache |-> useCache, allowCreate |-> TRUE,
     exposedEvents |-> exposed]

\* The initial content of the two files: no file, or what a process wrote.
TwinFiles == {FreshFs} \cup {[dir |-> TRUE, file |-> text] : text \in ExternalTexts}

\* The objects handed to overwrite() that have exactly the schema's keys.
SchemaObjects == {e \in NextObjects : EntryKeys(e) = SchemaKeys}

\* A store of the pair after a call that ran as r.
StoreAfter(r) == [cache |-> r.cache, fs |-> r.fs, emitted |-> r.emitted]

\* What read() returns on each store of the pair.
TwinReadCached ==
    read(twin.cached.cache, twin.cached.fs, TwinOptions(TRUE, twin.exposed), "ok")
TwinReadPlain ==
    read(twin.plain.cache, twin.plain.fs, TwinOptions(FALSE, twin.exposed), "ok")

\* Both stores are constructed, each on a file of its own with the content f.
TwinConstruct(f, exposed) ==
    LET c == ConstructRun(f, TwinOptions(TRUE, exposed), "ok")
        p == ConstructRun(f, TwinOptions(FALSE, exposed), "ok")
    IN /\ ~twin.on
       /\ c.phase = "live" /\ p.phase = "live"
       /\ twin' = [NoTwin EXCEPT !.on = TRUE, !.exposed = exposed,
                                 !.op = "construct",
                                 !.cached = [NoStore EXCEPT !.cache = c.cache, !.fs = c.fs],
                                 !.plain = [NoStore EXCEPT !.cache = p.cache, !.fs = p.fs]]
       /\ UNCHANGED << fs, phase, m_options, m_cache, last, emitted, held >>

\* alter(k, v) on both stores: no read fault, no write fault, listeners return.
TwinAlter(k, v) ==
    LET c == AlterRun(twin.cached.cache, twin.cached.fs,
                      TwinOptions(TRUE, twin.exposed), k, v, "ok", << >>, 0)
        p == AlterRun(twin.plain.cache, twin.plain.fs,
                      TwinOptions(FALSE, twin.exposed), k, v, "ok", << >>, 0)
    IN /\ twin.on
       /\ c.valid /\ p.valid
       /\ twin' = [NoTwin EXCEPT !.on = TRUE, !.exposed = twin.exposed,
                                 !.op = "alter", !.key = k, !.value = v,
                                 !.cached = StoreAfter(c), !.plain = StoreAfter(p)]
       /\ UNCHANGED << fs, phase, m_options, m_cache, last, emitted, held >>

\* overwrite(next) or reset() on both stores.
TwinOverwriteWith(op, next) ==
    LET c == OverwriteRun(twin.cached.cache, twin.cached.fs,
                          TwinOptions(TRUE, twin.exposed), next, << >>, 0)
        p == OverwriteRun(twin.plain.cache, twin.plain.fs,
                          TwinOptions(FALSE, twin.exposed), next, << >>, 0)
    IN /\ twin.on
       /\ c.valid /\ p.valid
       /\ twin' = [NoTwin EXCEPT !.on = TRUE, !.exposed = twin.exposed,
                                 !.op = op, !.next = next,
                                 !.cached = StoreAfter(c), !.plain = StoreAfter(p)]
       /\ UNCHANGED << fs, phase, m_options, m_cache, last, emitted, held >>

TwinOverwrite(next) == TwinOverwriteWith("overwrite", next)
TwinReset == TwinOverwriteWith("reset", m_flatten)

\* trigger(...keys) on both stores.
TwinTrigger(keys) ==
    LET c == TriggerRun(twin.cached.cache, twin.cached.fs,
                        TwinOptions(TRUE, twin.exposed), keys, "ok", 0)
        p == TriggerRun(twin.plain.cache, twin.plain.fs,
                        TwinOptions(FALSE, twin.exposed), keys, "ok", 0)
    IN /\ twin.on
       /\ c.valid /\ p.valid
       /\ twin' = [NoTwin EXCEPT !.on = TRUE, !.exposed = twin.exposed,
                                 !.op = "trigger", !.keys = keys,
                                 !.cached = [twin.cached EXCEPT !.emitted = c.emitted],
                                 !.plain = [twin.plain EXCEPT !.emitted = p.emitted]]
       /\ UNCHANGED << fs, phase, m_options, m_cache, last, emitted, held >>

\* read() on both stores.
TwinRead ==
    /\ twin.on
    /\ twin' = [NoTwin EXCEPT !.on = TRUE, !.exposed = twin.exposed,
                              !.op = "read",
                              !.cached = [twin.cached EXCEPT !.emitted = << >>],
                              !.plain = [twin.plain EXCEPT !.emitted = << >>],
                              !.gotCached = TwinReadCached,
                              !.gotPlain = TwinReadPlain]
    /\ UNCHANGED << fs, phase, m_options, m_cache, last, emitted, held >>

NextTwin ==
    \/ \E f \in TwinFiles, exposed \in BOOLEAN : TwinConstruct(f, exposed)
    \/ \E k \in SchemaKeys, v \in AlterValues : TwinAlter(k, v)
    \/ \E next \in SchemaObjects : TwinOverwrite(next)
    \/ TwinReset
    \/ \E keys \in TriggerKeys : TwinTrigger(keys)
    \/ TwinRead

SpecTwin == Init /\ [][NextTwin]_vars

\* ---------------------------------------------------------------- typing

TypeOK ==
    /\ fs.dir \in BOOLEAN
    /\ fs.file.kind \in {"absent", "corrupt", "json"}
    /\ existsSync(fs) => fs.dir
    /\ phase \in {"new", "live", "dead"}
    /\ m_cache.kind \in {"null", "obj"}
    /\ phase = "live" /\ m_options.useCache => m_cache.kind = "obj"
    /\ KeysOf(m_cache.obj) \subseteq AllKeys
    /\ \A k \in KeysOf(fs.file.obj) : fs.file.obj[k] \in JsonValues
    /\ held.kind \in {"none", "alias", "own"}
    /\ held.kind = "alias" => (phase = "live" /\ m_options.useCache)
    /\ twin.on \in BOOLEAN
    /\ twin.on => twin.cached.cache.kind = "obj" /\ twin.plain.cache.kind = "null"

\* ---------------------------------------------------------------- claims

\* What read() returns now, the file being readable when it exists.
current == read(m_cache, fs, m_options, "ok")
\* What read() returned to the call that the step makes: the same read fault.
CurrentUnder(rfault) == read(m_cache, fs, m_options, rfault)

JsonRepresentable(v) == v \in JsonValues
\* An object as JSON.parse(JSON.stringify(obj)) returns it.
JsonRoundTrip(obj) == JsonParse(JsonStringify(obj)).val

AlterReturned == last'.op = "alter" /\ last'.err = "none" /\ last'.rfault = "ok"

\* C1 as stated: after alter(k, v) returns normally, read(k) returns v and every
\* other key reads as it did immediately before the call, cache enabled or not.
C1_AlterVisible_AsStated ==
    [][AlterReturned =>
         /\ Get(current', last'.key) = last'.value
         /\ \A j \in AllKeys \ {last'.key} : Get(current', j) = Get(current, j)]_vars

\* C1 amended: after alter(k, v) returns normally, read(k) returns v when the
\* cache is enabled or v is JSON-representable, and every other key j reads as
\* before when the cache is enabled or its previous value was JSON-representable
\* (or j was absent).
C1_AlterVisible ==
    [][AlterReturned =>
         /\ (m_options.useCache \/ JsonRepresentable(last'.value))
               => Get(current', last'.key) = last'.value
         /\ \A j \in AllKeys \ {last'.key} :
               (m_options.useCache \/ JsonRepresentable(Get(current, j))
                  \/ ~HasKey(current, j))
               => Get(current', j) = Get(current, j)]_vars

\* A cache-less store took alter("b", "v1") while "a" held a value from the file.
C1_Witness ==
    /\ last.op = "alter" /\ last.err = "none" /\ last.rfault = "ok"
    /\ ~m_options.useCache
    /\ last.key = "b" /\ last.value = "v1"
    /\ Get(current, "b") = "v1" /\ Get(current, "a") = "null"

\* C2: for a JSON-serializable X with exactly the schema's keys, overwrite(X)
\* followed by read() returns an object deep-equal to X, cache enabled or not.
C2_OverwriteRoundTrip ==
    (/\ last.op = "overwrite" /\ last.err = "none"
     /\ EntryKeys(last.next) = SchemaKeys
     /\ \A i \in 1..Len(last.next) : JsonRepresentable(last.next[i].value))
    => current = FromEntries(last.next)

\* A cache-less store took overwrite({b: null, a: null}) and reads it back.
C2_Witness ==
    /\ last.op = "overwrite" /\ last.err = "none"
    /\ ~m_options.useCache
    /\ last.next = << [key |-> "b", value |-> "null"], [key |-> "a", value |-> "null"] >>
    /\ Get(current, "a") = "null" /\ Get(current, "b") = "null"

ResetReturned == last.op = "reset" /\ last.err = "none"

\* C3 as stated: reset() followed by read() returns exactly the flattened presets.
C3_ResetToPresets_AsStated == ResetReturned => current = flattened

\* C3 amended: reset() followed by read() returns the flattened presets when the
\* cache is enabled and the presets as JSON round-trips them when it is not (a
\* preset JSON cannot represent reads back as null); a second reset() right
\* after leaves read() and the file content as they were.
C3_ResetToPresets ==
    /\ [](ResetReturned =>
            /\ m_options.useCache => current = flattened
            /\ ~m_options.useCache => current = ObjectAssign(flattened, JsonRoundTrip(flattened))
            /\ fs.file = JsonStringify(flattened))
    /\ [][ResetReturned /\ ResetReturned' => current' = current /\ fs'.file = fs.file]_vars

\* A cache-less store was reset after the file held other values.
C3_Witness ==
    /\ ResetReturned /\ ~m_options.useCache
    /\ last.attempts = 2
    /\ Get(current, "a") = "v1" /\ Get(current, "b") = "null"

\* C4: a store constructed on a path without a file reads exactly the flattened
\* presets: every draft key with its preset and no other key.
C4_DefaultLoad ==
    (/\ last.op = "construct" /\ last.err = "none"
     /\ m_options.allowCreate /\ ~existsSync(fs))
    => /\ KeysOf(current) = {Draft[i].key : i \in 1..Len(Draft)}
       /\ \A i \in 1..Len(Draft) : current[Draft[i].key] = Draft[i].preset

\* A caching store was constructed on a path that had no directory and no file.
C4_Witness ==
    /\ last.op = "construct" /\ last.err = "none"
    /\ m_options.useCache /\ m_options.allowCreate
    /\ fs.dir /\ ~existsSync(fs)
    /\ m_cache.obj = flattened

CommitOps == {"alter", "overwrite", "reset", "trigger"}
Committed == last.op \in CommitOps /\ last.err = "none"

\* C5: on a store with per-key events every commit fires "change" exactly once,
\* first, with the complete ordered list of alterations, then one per-key event
\* per alteration with its value, in the order of the batch; alter(k, v) fires
\* "change" with [{key: k, value: v}] and then "change:k" with v.
C5_EventOrder ==
    (Committed /\ m_options.exposedEvents) =>
      /\ Len(emitted) >= 1
      /\ emitted[1].name = "change"
      /\ Len(emitted) = 1 + Len(emitted[1].batch)
      /\ \A i \in 1..Len(emitted[1].batch) :
            /\ emitted[i + 1].name = "change:key"
            /\ emitted[i + 1].key = emitted[1].batch[i].key
            /\ emitted[i + 1].value = emitted[1].batch[i].value
      /\ last.op = "alter" =>
            emitted[1].batch = << [key |-> last.key, value |-> last.value] >>
      /\ last.op = "overwrite" => emitted[1].batch = last.next
      /\ last.op = "reset" =>
            emitted[1].batch =
               [i \in 1..Len(Draft) |-> [key |-> Draft[i].key, value |-> Draft[i].preset]]
      /\ last.op = "trigger" =>
            /\ Len(emitted[1].batch) = Len(last.keys)
            /\ \A i \in 1..Len(last.keys) : emitted[1].batch[i].key = last.keys[i]

\* overwrite() of two entries fired the batch and then both per-key events.
C5_Witness ==
    /\ Committed /\ m_options.exposedEvents
    /\ last.op = "overwrite" /\ Len(last.next) = 2
    /\ Len(emitted) = 3
    /\ emitted[2].key = last.next[1].key /\ emitted[3].key = last.next[2].key

\* C6: trigger(k1, ..., kn) emits alterations carrying the value read(ki) returns
\* at the time of the call and changes nothing: the cache, the file content and
\* what read() returns are as before, and no write is attempted.
C6_TriggerReadOnly ==
    [][last'.op = "trigger" =>
         /\ m_cache' = m_cache
         /\ fs' = fs
         /\ current' = current
         /\ last'.attempts = 0
         /\ last'.err = "none"
         /\ emitted'[1].batch =
               [i \in 1..Len(last'.keys) |->
                  [key |-> last'.keys[i],
                   value |-> Get(CurrentUnder(last'.rfault), last'.keys[i])]]]_vars

\* trigger("x", "b") emitted the value of "x" and the changed value of "b".
C6_Witness ==
    /\ last.op = "trigger" /\ last.err = "none"
    /\ last.keys = << "x", "b" >>
    /\ emitted[1].batch = << [key |-> "x", value |-> "v1"], [key |-> "b", value |-> "v1"] >>
    /\ Get(current, "b") = "v1" /\ Get(current, "x") = "v1"

ReadErrors == {"ReadENOENT", "ReadEACCES", "SyntaxError"}
\* The file cannot be read or parsed: missing, unreadable or not JSON.
ReadFails(f, rfault) == ~existsSync(f) \/ rfault = "fail" \/ f.file.kind = "corrupt"

\* C7: a read failure of the file (missing, unreadable, invalid JSON) is never
\* surfaced: no call ends with the error of a read, and construction, read() and
\* alter() use exactly the flattened presets in place of the file.
C7_ReadFailureRecovered ==
    /\ [](/\ last.err \notin ReadErrors
          /\ \A rf \in ReadFaults :
                ReadFails(fs, rf) =>
                   /\ m_readFile(fs, rf) = [err |-> "none", val |-> flattened]
                   /\ (phase = "live" /\ ~m_options.useCache) => CurrentUnder(rf) = flattened
          /\ (/\ last.op = "construct" /\ last.err = "none" /\ m_options.useCache
              /\ ReadFails(fs, last.rfault))
             => m_cache = CacheOf(flattened))
    /\ [][(/\ last'.op = "alter" /\ ~m_options.useCache
           /\ ReadFails(fs, last'.rfault))
          => /\ last'.err \notin ReadErrors
             /\ last'.err = "none" =>
                  fs'.file = JsonStringify(Put(flattened, last'.key, last'.value))]_vars

\* A caching store was constructed on a file that is not JSON.
C7_Witness ==
    /\ last.op = "construct" /\ last.err = "none" /\ m_options.useCache
    /\ fs.file.kind = "corrupt"
    /\ phase = "live" /\ current = flattened

MutatingOps == {"alter", "overwrite", "reset"}
\* The configuration a mutating call hands to m_writeFile.
Written ==
    IF last'.op = "alter"
    THEN Put(CurrentUnder(last'.rfault), last'.key, last'.value)
    ELSE FromEntries(last'.next)

\* C8: when the parent directory was deleted externally after construction
\* (allowCreate on), the next alter, overwrite or reset succeeds: the directory
\* and the file are recreated and the file holds what the call wrote.
C8_SelfHeal ==
    [][(/\ phase = "live" /\ ~fs.dir /\ m_options.allowCreate
        /\ last'.op \in MutatingOps /\ last'.faults = << >>)
       => /\ last'.err = "none"
          /\ fs'.dir /\ existsSync(fs')
          /\ fs'.file = JsonStringify(Written)]_vars

\* The directory was removed and an alter wrote the file at its second attempt.
C8_Witness ==
    /\ last.op = "alter" /\ last.err = "none" /\ last.faults = << >>
    /\ last.attempts = 2
    /\ fs.dir /\ existsSync(fs)

\* C9 as stated: one alter, overwrite or reset call makes at most two write
\* attempts; a failed retry is rethrown, a failure other than a missing path
\* is not retried.
C9_RetryOnce_AsStated ==
    last.op \in MutatingOps =>
      /\ last.attempts <= 2
      /\ FaultAt(last.faults, 1) = "fail" => last.attempts = 1 /\ last.err = "EACCES"
      /\ (last.attempts = 2 /\ FaultAt(last.faults, 2) = "fail") => last.err = "EACCES"

\* C10 as stated: in every state of a store the object read() returns contains
\* every key of the schema.
C10_SchemaKeysPresent_AsStated == phase = "live" => SchemaKeys \subseteq KeysOf(current)

\* C11: a store with useCache on never re-reads the file after construction:
\* read() returns the cache, an external change to or deletion of the file leaves
\* read() as it was, and after the store's own calls read() is determined by what
\* read() returned before and the call's arguments alone.
C11_CacheNeverRereads ==
    [][(phase = "live" /\ m_options.useCache /\ last'.op # "construct") =>
         /\ current' = m_cache'.obj
         /\ last'.op \in {"external", "trigger"} => current' = current
         /\ last'.op = "alter" => current' = Put(current, last'.key, last'.value)
         /\ last'.op = "overwrite" => current' = FromEntries(last'.next)
         /\ last'.op = "reset" => current' = flattened]_vars

\* Another process wrote the key "x" to the file of a caching store, which still
\* reads without it.
C11_Witness ==
    /\ phase = "live" /\ m_options.useCache /\ last.op = "external"
    /\ HasKey(fs.file.obj, "x") /\ ~HasKey(current, "x")
    /\ SchemaKeys \subseteq KeysOf(current)

\* The file content shallow-merged over the presets; the presets when the file
\* is missing or is not JSON.
FileOverPresets(f) ==
    IF f.file.kind = "json" THEN ObjectAssign(flattened, f.file.obj) ELSE flattened

\* C12: a store with useCache off treats the disk as truth: read() returns the
\* current file content merged over the presets, whoever wrote it, and
\* alter(k, v) on a readable file writes back the merged content with only k
\* changed, so every other key the file held before the call keeps its value.
C12_DiskIsTruth ==
    /\ []((phase = "live" /\ ~m_options.useCache) => current = FileOverPresets(fs))
    /\ [][(/\ last'.op = "alter" /\ last'.err = "none" /\ last'.rfault = "ok"
           /\ ~m_options.useCache /\ fs.file.kind = "json")
          => /\ fs'.file = JsonStringify(Put(FileOverPresets(fs), last'.key, last'.value))
             /\ \A j \in KeysOf(fs.file.obj) \ {last'.key} :
                   HasKey(fs'.file.obj, j) /\ fs'.file.obj[j] = fs.file.obj[j]]_vars

\* A cache-less store altered "a" on a file that held "b" and "x" from elsewhere.
C12_Witness ==
    /\ last.op = "alter" /\ last.err = "none" /\ ~m_options.useCache
    /\ last.key = "a" /\ last.value = "v1" /\ last.attempts = 1
    /\ fs.file = JsonText([a |-> "v1", b |-> "null", x |-> "v1"])

\* The keys of an object that the draft does not declare.
BeyondSchema(obj) == KeysOf(obj) \ SchemaKeys

\* C13 as stated: the keys the file holds beyond the schema are returned by read()
\* with the file's values, and alter on a schema key writes them back unchanged,
\* for every store.
C13_ExtraKeysPreserved_AsStated ==
    /\ [](phase = "live" =>
             \A j \in BeyondSchema(fs.file.obj) : Get(current, j) = fs.file.obj[j])
    /\ [][(last'.op = "alter" /\ last'.err = "none" /\ last'.rfault = "ok")
          => \A j \in BeyondSchema(fs.file.obj) \ {last'.key} :
                HasKey(fs'.file.obj, j) /\ fs'.file.obj[j] = fs.file.obj[j]]_vars

\* C13 amended: the keys beyond the schema of the file as the store read it (at
\* every call without the cache, at construction with it) are preserved: the
\* merge takes every key of the file with the file's value and every other preset,
\* read() returns that merge, and alter on a schema key writes back every key
\* beyond the schema that read() returned before the call.
C13_ExtraKeysPreserved ==
    /\ [](fs.file.kind = "json" =>
            LET r == m_readFile(fs, "ok").val
            IN /\ KeysOf(r) = SchemaKeys \cup KeysOf(fs.file.obj)
               /\ \A j \in KeysOf(fs.file.obj) : r[j] = fs.file.obj[j]
               /\ \A j \in SchemaKeys \ KeysOf(fs.file.obj) : r[j] = flattened[j]
               /\ (phase = "live" /\ ~m_options.useCache) => current = r
               /\ (/\ last.op = "construct" /\ last.err = "none" /\ last.rfault = "ok"
                   /\ m_options.useCache) => current = r)
    /\ [][(/\ last'.op = "alter" /\ last'.err = "none" /\ last'.rfault = "ok")
          => \A j \in BeyondSchema(current) \ {last'.key} :
                /\ HasKey(fs'.file.obj, j)
                /\ fs'.file.obj[j] = JsonValue(current[j])
                /\ Get(current', j) = current[j]]_vars

\* A caching store altered "b" and wrote back the key "x" it had read.
C13_Witness ==
    /\ last.op = "alter" /\ last.err = "none" /\ m_options.useCache
    /\ last.key = "b" /\ last.value = "v1"
    /\ HasKey(fs.file.obj, "x") /\ fs.file.obj["x"] = "v1"
    /\ Get(current, "x") = "v1" /\ Get(current, "a") = "null"

\* The events of the last call that are 'change' batches.
ChangeBatches == {i \in 1..Len(emitted) : emitted[i].name = "change"}

\* C14: overwrite(next) emits one 'change' batch holding exactly one alteration
\* per entry of next, with the entry's key and value, in next's key order, keys
\* outside the schema included; reset() emits one alteration per schema key with
\* its preset, in the draft's key order.
C14_OverwriteBatch ==
    (last.op \in {"overwrite", "reset"} /\ last.err = "none") =>
      /\ ChangeBatches = {1}
      /\ Len(emitted[1].batch) = Len(last.next)
      /\ \A i \in 1..Len(last.next) :
            /\ emitted[1].batch[i].key = last.next[i].key
            /\ emitted[1].batch[i].value = last.next[i].value
      /\ last.op = "reset" =>
            /\ Len(emitted[1].batch) = Len(Draft)
            /\ \A i \in 1..Len(Draft) :
                  /\ emitted[1].batch[i].key = Draft[i].key
                  /\ emitted[1].batch[i].value = Draft[i].preset

\* overwrite({x: v1, b: NaN}) emitted one batch with "x" first and then "b".
C14_Witness ==
    /\ last.op = "overwrite" /\ last.err = "none" /\ ~m_options.exposedEvents
    /\ last.next = << [key |-> "x", value |-> "v1"], [key |-> "b", value |-> "NaN"] >>
    /\ Len(emitted) = 1
    /\ emitted[1].batch[1].key = "x" /\ emitted[1].batch[2].value = "NaN"

\* C15: constructing a store on a path that does not end in '.json' fails with an
\* error, leaves no store, and has no effect on the filesystem: no directory is
\* created, the file is not written, and nothing is loaded from it.
C15_BadExtension ==
    [][(last'.op = "construct" /\ m_options'.path = "conf.txt") =>
         /\ last'.err = "ValidationError"
         /\ phase' = "dead"
         /\ fs' = fs
         /\ m_cache' = NullCache
         /\ last'.rfault = "ok"]_vars

\* Construction on "conf.txt" failed where the directory was missing, and it
\* still is.
C15_Witness ==
    /\ last.op = "construct" /\ last.err = "ValidationError"
    /\ m_options.path = "conf.txt" /\ m_options.allowCreate
    /\ phase = "dead" /\ ~fs.dir

\* C16: on a '.json' path construction fails with the resource-missing error
\* exactly when the file does not exist and allowCreate is off, and then no
\* directory is created; when the file does not exist and allowCreate is on,
\* construction succeeds and the parent directory exists afterwards; and
\* m_prepareResource run again, or run where the file or the directory already
\* exists, changes nothing.
C16_ResourceMissing ==
    /\ [][(last'.op = "construct" /\ m_options'.path = "conf.json") =>
            /\ (last'.err = "ResourceMissing") <=>
                  (~existsSync(fs) /\ ~m_options'.allowCreate)
            /\ last'.err = "ResourceMissing" => (fs' = fs /\ phase' = "dead")
            /\ (~existsSync(fs) /\ m_options'.allowCreate) =>
                  /\ last'.err = "none" /\ phase' = "live"
                  /\ fs'.dir /\ fs'.file = fs.file
            /\ existsSync(fs) => (last'.err = "none" /\ fs' = fs)]_vars
    /\ [](\A opts \in OptionSets :
            LET p == m_prepareResource(fs, opts)
            IN /\ m_prepareResource(p.fs, opts) = p
               /\ (existsSync(fs) \/ fs.dir) => p.fs = fs)

\* Construction with allowCreate off failed on a path without file or directory.
C16_Witness ==
    /\ last.op = "construct" /\ last.err = "ResourceMissing"
    /\ m_options.path = "conf.json" /\ ~m_options.allowCreate
    /\ phase = "dead" /\ ~fs.dir /\ ~existsSync(fs)

\* The events of the last call that are per-key 'change:<key>' events.
KeyEvents == {i \in 1..Len(emitted) : emitted[i].name = "change:key"}

\* C17: per-key events are gated by exposedEvents: on a store with exposedEvents
\* off no operation emits a 'change:<key>' event and a commit fires the 'change'
\* batch alone; on a store with exposedEvents on every alteration of every batch
\* has its 'change:<key>' event, with its key and value, after the batch.
C17_ExposedEventsGate ==
    /\ ~m_options.exposedEvents =>
          /\ KeyEvents = {}
          /\ Committed => Len(emitted) = 1 /\ emitted[1].name = "change"
    /\ (m_options.exposedEvents /\ Committed) =>
          /\ emitted[1].name = "change"
          /\ KeyEvents = {i + 1 : i \in 1..Len(emitted[1].batch)}
          /\ \A i \in 1..Len(emitted[1].batch) :
                /\ emitted[i + 1].key = emitted[1].batch[i].key
                /\ emitted[i + 1].value = emitted[1].batch[i].value

\* A store with the default options triggered two keys and fired the batch alone.
C17_Witness ==
    /\ last.op = "trigger" /\ last.err = "none" /\ ~m_options.exposedEvents
    /\ Len(last.keys) = 2 /\ Len(emitted) = 1
    /\ Len(emitted[1].batch) = 2

AlterWritten == last.op = "alter" /\ last.err = "none"

\* C18 as stated: an alter(k, v) whose write succeeds emits exactly one 'change'
\* batch holding the one alteration (k, v), after the write, so a listener that
\* calls read(k) during the event sees v and the file already holds v; when the
\* write fails no event is emitted.
C18_AlterEmitsAfterWrite_AsStated ==
    /\ AlterWritten =>
          /\ ChangeBatches = {1}
          /\ emitted[1].batch = << [key |-> last.key, value |-> last.value] >>
          /\ Get(last.seen, last.key) = last.value
          /\ Get(last.seenFile.obj, last.key) = last.value
    /\ (last.op = "alter" /\ last.err # "none") => emitted = << >>

\* C18 amended: an alter(k, v) whose write succeeds emits exactly one 'change'
\* batch holding the one alteration (k, v), after the write: during the event
\* the file already is the one the call leaves, holding v as JSON writes it, and
\* a listener's read() returns what read() returns after the call, with v for k
\* when the cache is enabled or v is JSON-representable; when the write fails no
\* event is emitted.
C18_AlterEmitsAfterWrite ==
    /\ AlterWritten =>
          /\ ChangeBatches = {1}
          /\ emitted[1].batch = << [key |-> last.key, value |-> last.value] >>
          /\ last.seenFile = fs.file
          /\ Get(last.seenFile.obj, last.key) = JsonValue(last.value)
          /\ last.seen = current
          /\ (m_options.useCache \/ JsonRepresentable(last.value))
                => Get(last.seen, last.key) = last.value
    /\ (last.op = "alter" /\ last.err # "none") => emitted = << >>

\* An alter that had to recreate the directory emitted its batch, and the
\* listener found the new value in read() and in the file.
C18_Witness ==
    /\ AlterWritten /\ last.attempts = 2
    /\ last.key = "a" /\ last.value = "v1"
    /\ Len(emitted) >= 1 /\ emitted[1].batch = << [key |-> "a", value |-> "v1"] >>
    /\ Get(last.seen, "a") = "v1" /\ Get(last.seenFile.obj, "a") = "v1"

\* C19: on a cache-enabled store, when the write of alter(k, v) or overwrite(next)
\* fails, the error reaches the caller and the cache stays changed: read() returns
\* the new values, no event is emitted, and the file keeps the content it had
\* (nobody else touching the path during the call).
C19_NoRollback ==
    [][(/\ last'.op \in {"alter", "overwrite"} /\ m_options.useCache
        /\ last'.err # "none")
       => /\ last'.err = "EACCES"
          /\ last'.op = "alter" => current' = Put(current, last'.key, last'.value)
          /\ last'.op = "overwrite" => current' = FromEntries(last'.next)
          /\ emitted' = << >>
          /\ (\A i \in 1..Len(last'.faults) : last'.faults[i] # "rmdir")
                => fs'.file = fs.file]_vars

\* A caching store failed to write overwrite({x: v1}): read() returns it, the
\* file does not hold it.
C19_Witness ==
    /\ last.op = "overwrite" /\ last.err = "EACCES" /\ m_options.useCache
    /\ current = [x |-> "v1"]
    /\ fs.file.kind = "json" /\ ~HasKey(fs.file.obj, "x") /\ HasKey(fs.file.obj, "a")

\* C20: a listener that throws during an emission is not caught: the call (alter,
\* overwrite or trigger) ends with the listener's exception, the events of the
\* batch after the one that threw are not fired, and the data change of the call
\* stays committed: the cache and the file hold the new values (trigger changes
\* nothing).
C20_ListenerThrows ==
    [][(last'.op \in {"alter", "overwrite", "trigger"} /\ last'.throwAt > 0) =>
         /\ last'.err = "ListenerError"
         /\ Len(emitted') = last'.throwAt
         /\ emitted'[1].name = "change"
         /\ \A i \in 2..Len(emitted') :
               /\ emitted'[i].name = "change:key"
               /\ emitted'[i].key = emitted'[1].batch[i - 1].key
         /\ last'.op = "alter" =>
               /\ fs'.file = JsonStringify(Written)
               /\ m_options.useCache =>
                     m_cache'.obj = Put(current, last'.key, last'.value)
         /\ last'.op = "overwrite" =>
               /\ fs'.file = JsonStringify(FromEntries(last'.next))
               /\ m_options.useCache => m_cache'.obj = FromEntries(last'.next)
         /\ last'.op = "trigger" => (fs' = fs /\ m_cache' = m_cache)]_vars

\* On a caching store with per-key events the 'change' listener threw during
\* overwrite of two entries: no per-key event was fired, cache and file hold the
\* two entries.
C20_Witness ==
    /\ last.op = "overwrite" /\ last.err = "ListenerError" /\ last.throwAt = 1
    /\ m_options.useCache /\ m_options.exposedEvents
    /\ Len(last.next) = 2 /\ Len(emitted) = 1
    /\ m_cache.obj = FromEntries(last.next)
    /\ fs.file = JsonStringify(FromEntries(last.next))

\* What a new store constructed on the path with the same draft reads.
NewStoreReads == m_readFile(fs, "ok").val

\* C21 as stated, for cached values that JSON represents: on a cache-enabled store,
\* after every alter, overwrite or reset that returns normally, the file parses to
\* exactly the cached configuration, and a new store constructed on the same path
\* reads the same configuration.
C21_CacheMirrored_AsStated ==
    (/\ phase = "live" /\ m_options.useCache
     /\ last.op \in MutatingOps /\ last.err = "none"
     /\ \A k \in KeysOf(m_cache.obj) : JsonRepresentable(m_cache.obj[k]))
    => /\ JsonParse(fs.file).val = m_cache.obj
       /\ NewStoreReads = current

\* C22 as stated: with the cache enabled the objects the caller holds (returned by
\* read(), passed to overwrite) are not the cache object: an alter() by the store
\* does not change the object the caller holds, and a change the caller makes to
\* it changes neither what read() returns nor the file.
C22_ExclusiveOwnership_AsStated ==
    [][/\ (/\ last'.op = "alter" /\ last'.err = "none"
           /\ m_options.useCache /\ held.kind # "none")
          => HeldObj' = HeldObj
       /\ (last'.op = "caller" /\ phase = "live" /\ m_options.useCache)
          => (current' = current /\ fs' = fs)]_vars

\* The two stores' files hold the same content.
TwinFilesEqual == twin.cached.fs = twin.plain.fs

\* C23 as stated: a cache-enabled and a cache-disabled store built from the same
\* draft and the same initial file content and driven by the same alter,
\* overwrite, reset, trigger and read calls (overwrite arguments with exactly the
\* schema's keys, no external writer, no write failure) are observationally
\* equivalent: every read() returns equal values, the emitted event sequences
\* are equal and the two files hold equal content.
C23_CacheEquivalence_AsStated ==
    twin.on =>
       /\ twin.op = "read" => twin.gotCached = twin.gotPlain
       /\ twin.cached.emitted = twin.plain.emitted
       /\ TwinFilesEqual

\* Two values agree when they are equal or the cached store's is one JSON
\* cannot represent.
ValuesAgree(cv, pv) == JsonRepresentable(cv) => pv = cv
AlterationsAgree(ca, pa) ==
    /\ Len(ca) = Len(pa)
    /\ \A i \in 1..Len(ca) :
          ca[i].key = pa[i].key /\ ValuesAgree(ca[i].value, pa[i].value)
EventsAgree(ce, pe) ==
    /\ Len(ce) = Len(pe)
    /\ \A i \in 1..Len(ce) :
          /\ ce[i].name = pe[i].name
          /\ ce[i].key = pe[i].key
          /\ IF ce[i].name = "change" THEN AlterationsAgree(ce[i].batch, pe[i].batch)
             ELSE ValuesAgree(ce[i].value, pe[i].value)

\* C23: the two stores are equivalent on every value JSON can represent.  After
\* every call the two files hold equal content; alter, overwrite and reset emit
\* equal event sequences; read() returns objects with the same keys and an
\* equal value at every key whose value in the cached store is
\* JSON-representable, and the events of trigger agree in the same way.
C23_CacheEquivalence ==
    twin.on =>
       /\ TwinFilesEqual
       /\ twin.op \in MutatingOps => twin.cached.emitted = twin.plain.emitted
       /\ twin.op = "trigger" => EventsAgree(twin.cached.emitted, twin.plain.emitted)
       /\ twin.op = "read" =>
             /\ KeysOf(twin.gotCached) = KeysOf(twin.gotPlain)
             /\ \A k \in KeysOf(twin.gotCached) :
                   ValuesAgree(twin.gotCached[k], twin.gotPlain[k])

\* Both stores were overwritten, then altered, and read() is called on both:
\* the cached store answers from its cache, the other from its file.
C23_Witness ==
    /\ twin.on /\ twin.op = "read"
    /\ twin.exposed
    /\ twin.gotCached = [a |-> "null", b |-> "v1"]
    /\ twin.gotPlain = twin.gotCached
    /\ twin.cached.fs.file = JsonText(twin.gotCached)

====
